---- MODULE Spec2Model ----
(***************************************************************************)
(* State-machine model of scripts/auto_fix.js: the CI auto-fix pipeline.   *)
(* run() is modelled one awaited step at a time; analyzeWithGPT() is       *)
(* modelled with its in-flight request, its deadline timer and the JSON    *)
(* decoding of the reply.                                                  *)
(*                                                                         *)
(* A text is a sequence of symbols.  White space and the characters the    *)
(* diff pattern looks at are single-character symbols; a fixed message of  *)
(* the program is abbreviated to one symbol.                               *)
(***************************************************************************)
EXTENDS Integers, Sequences, FiniteSets, TLC

----------------------------------------------------------------------------
(* Texts *)

\* Longest run of blanks generated around the patch bodies fed to the model.
MaxPad == 1

\* String.prototype.trim's white space, restricted to the symbols used here.
WhiteSpace == {" ", "\n", "\t"}

RECURSIVE TrimLeft(_)
TrimLeft(s) ==
  IF s = <<>> THEN <<>>
  ELSE IF Head(s) \in WhiteSpace THEN TrimLeft(Tail(s)) ELSE s

RECURSIVE TrimRight(_)
TrimRight(s) ==
  IF s = <<>> THEN <<>>
  ELSE IF s[Len(s)] \in WhiteSpace THEN TrimRight(SubSeq(s, 1, Len(s) - 1)) ELSE s

\* String.prototype.trim
Trim(s) == TrimRight(TrimLeft(s))

\* s has prefix p at position i
HasAt(s, i, p) ==
  /\ i + Len(p) - 1 <= Len(s)
  /\ \A k \in 1..Len(p) : s[i + k - 1] = p[k]

----------------------------------------------------------------------------
(* JavaScript values of the fields of an analysis *)

Fields == {"RootCauseExplanation", "Patch", "TestSuggestions", "RiskAssessment"}

Absent == [t |-> "absent", s |-> <<>>]
Str(s) == [t |-> "string", s |-> s]
Num(s) == [t |-> "number", s |-> s]
NullVal == [t |-> "null", s |-> <<>>]
ArrVal == [t |-> "array", s |-> <<>>]
ObjVal == [t |-> "object", s |-> <<>>]

\* ToBoolean of a field value (the left operand of && and ||)
Truthy(v) ==
  CASE v.t = "absent" -> FALSE
    [] v.t = "null" -> FALSE
    [] v.t = "string" -> v.s # <<>>
    [] v.t = "number" -> v.s # <<"0">>
    [] OTHER -> TRUE

\* An analysis value: the type of the value and, for an object, its fields.
NoFields == [f \in Fields |-> Absent]
Scalar(type) == [type |-> type, f |-> NoFields]
Object(flds) == [type |-> "object", f |-> flds]

\* analysis?.X : undefined for null, for a scalar and for an array
Get(analysis, name) == analysis.f[name]

----------------------------------------------------------------------------
(* JSON.parse, on the lexed form of a text *)

\* A token of a JSON text; "word" is any run of characters that is no JSON token.
Tok(k) == [k |-> k, v |-> <<>>]
StrTok(s) == [k |-> "str", v |-> s]
NumTok(s) == [k |-> "num", v |-> s]

ScalarKinds == {"null", "true", "false", "num", "str"}

\* The value of a scalar token
ScalarVal(tok) ==
  CASE tok.k = "null" -> NullVal
    [] tok.k = "true" -> [t |-> "boolean", s |-> <<"true">>]
    [] tok.k = "false" -> [t |-> "boolean", s |-> <<"false">>]
    [] tok.k = "num" -> Num(tok.v)
    [] OTHER -> Str(tok.v)

ParseFail == [ok |-> FALSE, val |-> Absent, next |-> 0]

\* A value at position i: a scalar, [], {} or a one-string array (the nesting
\* the inputs use); an array carries the text ToString gives it.
ParseMemberValue(toks, i) ==
  IF i > Len(toks) THEN ParseFail
  ELSE IF toks[i].k \in ScalarKinds
    THEN [ok |-> TRUE, val |-> ScalarVal(toks[i]), next |-> i + 1]
  ELSE IF i + 1 <= Len(toks) /\ toks[i].k = "[" /\ toks[i + 1].k = "]"
    THEN [ok |-> TRUE, val |-> ArrVal, next |-> i + 2]
  ELSE IF i + 1 <= Len(toks) /\ toks[i].k = "{" /\ toks[i + 1].k = "}"
    THEN [ok |-> TRUE, val |-> ObjVal, next |-> i + 2]
  ELSE IF i + 2 <= Len(toks) /\ toks[i].k = "[" /\ toks[i + 1].k = "str"
          /\ toks[i + 2].k = "]"
    THEN [ok |-> TRUE, val |-> [t |-> "array", s |-> toks[i + 1].v], next |-> i + 3]
  ELSE ParseFail

\* key : value (, key : value)* } up to the end of the text; a later key wins.
RECURSIVE ParseMembers(_, _, _)
ParseMembers(toks, i, acc) ==
  IF i + 1 > Len(toks) \/ toks[i].k # "str" \/ toks[i + 1].k # ":"
    THEN [ok |-> FALSE, f |-> NoFields]
  ELSE
    LET r == ParseMemberValue(toks, i + 2)
        key == toks[i].v
        acc2 == IF Len(key) = 1 /\ key[1] \in Fields
                  THEN [acc EXCEPT ![key[1]] = r.val] ELSE acc
    IN IF ~r.ok \/ r.next > Len(toks) THEN [ok |-> FALSE, f |-> NoFields]
       ELSE IF toks[r.next].k = "}"
         THEN [ok |-> r.next = Len(toks), f |-> acc2]
       ELSE IF toks[r.next].k = ","
         THEN ParseMembers(toks, r.next + 1, acc2)
       ELSE [ok |-> FALSE, f |-> NoFields]

\* value (, value)* ] up to the end of the text
RECURSIVE ParseElements(_, _)
ParseElements(toks, i) ==
  LET r == ParseMemberValue(toks, i)
  IN IF ~r.ok \/ r.next > Len(toks) THEN FALSE
     ELSE IF toks[r.next].k = "]" THEN r.next = Len(toks)
     ELSE IF toks[r.next].k = "," THEN ParseElements(toks, r.next + 1)
     ELSE FALSE

ScalarType(tok) ==
  CASE tok.k = "null" -> "null"
    [] tok.k \in {"true", "false"} -> "boolean"
    [] tok.k = "num" -> "number"
    [] OTHER -> "string"

\* JSON.parse(text): ok = FALSE stands for the SyntaxError it throws.
JSONParse(toks) ==
  IF toks = <<>> THEN [ok |-> FALSE, val |-> Scalar("null")]
  ELSE IF Len(toks) = 1
    THEN [ok |-> toks[1].k \in ScalarKinds, val |-> Scalar(ScalarType(toks[1]))]
  ELSE IF toks[1].k = "["
    THEN [ok |-> (toks[2].k = "]" /\ Len(toks) = 2) \/ ParseElements(toks, 2),
          val |-> Scalar("array")]
  ELSE IF toks[1].k = "{"
    THEN IF toks[2].k = "}"
           THEN [ok |-> Len(toks) = 2, val |-> Object(NoFields)]
           ELSE LET m == ParseMembers(toks, 2, NoFields)
                IN [ok |-> m.ok, val |-> Object(m.f)]
  ELSE [ok |-> FALSE, val |-> Scalar("null")]

\* The content of the first choice of the reply: undefined, a string (lexed)
\* or a value of another type.
NoContent == [t |-> "absent", toks |-> <<>>]
TextContent(toks) == [t |-> "string", toks |-> toks]
NumContent(s) == [t |-> "number", toks |-> <<NumTok(s)>>]
ObjContent == [t |-> "object", toks |-> <<Tok("["), Tok("word"), Tok("word"), Tok("]")>>]

\* content || '' followed by the ToString that JSON.parse applies
ContentOrEmpty(content) ==
  CASE content.t = "absent" -> <<>>
    [] content.t = "number" /\ content.toks = <<NumTok(<<"0">>)>> -> <<>>
    [] OTHER -> content.toks

----------------------------------------------------------------------------
(* Inputs: the environment of one run and what its collaborators answer *)

NoText == <<>>

\* The texts a reply puts in its Patch field
DiffText == <<"-", "-", "-", " ", "a", "\n", "+", "+", "+", " ", "b", "\n">>
PlainText == <<"x">>
Blanks(n) == [i \in 1..n |-> " "]
PatchTexts == { Blanks(n) \o body : n \in 0..MaxPad, body \in {NoText, PlainText, DiffText} }

Member(key, valtoks) == <<StrTok(<<key>>), Tok(":")>> \o valtoks

\* {"RootCauseExplanation":"X","Patch":<patch>,"TestSuggestions":"Y","RiskAssessment":"High"}
FullObjectText(patchtoks) ==
  <<Tok("{")>> \o Member("RootCauseExplanation", <<StrTok(<<"X">>)>>)
    \o <<Tok(",")>> \o Member("Patch", patchtoks)
    \o <<Tok(",")>> \o Member("TestSuggestions", <<StrTok(<<"Y">>)>>)
    \o <<Tok(",")>> \o Member("RiskAssessment", <<StrTok(<<"High">>)>>)
    \o <<Tok("}")>>

\* {"Patch":<patch>}
PatchOnlyText(patchtoks) == <<Tok("{")>> \o Member("Patch", patchtoks) \o <<Tok("}")>>

\* What data?.choices?.[0]?.message?.content can be once the reply is decoded
ReplyContents ==
  { NoContent, NumContent(<<"0">>), NumContent(<<"5">>), ObjContent,
    TextContent(<<Tok("word"), Tok("word")>>),
    TextContent(<<Tok("{"), StrTok(<<"Patch">>)>>),
    TextContent(<<Tok("null")>>),
    TextContent(<<StrTok(PlainText)>>),
    TextContent(<<Tok("["), Tok("]")>>),
    TextContent(<<Tok("{"), Tok("}")>>),
    TextContent(PatchOnlyText(<<NumTok(<<"5">>)>>)),
    TextContent(PatchOnlyText(<<Tok("null")>>)),
    TextContent(PatchOnlyText(<<Tok("["), StrTok(DiffText), Tok("]")>>)) }
  \cup { TextContent(FullObjectText(<<StrTok(p)>>)) : p \in PatchTexts }

\* String(err) of what fetch or res.json() rejects with
TransportErrors == {"TypeError: fetch failed"}
AbortError == "AbortError: This operation was aborted"
BodyError == "SyntaxError: Unexpected token < in JSON"

\* What `git remote get-url origin` prints
RemoteUrls ==
  { <<"h", ":", "/", "/", "g", "/", "o", "/", "r", ".", "g", "i", "t", "\n">>,
    <<"g", "@", "g", ":", "o", "/", "r">>,
    <<"/", "s", "r", "v", "/", "r", ".", "g", "i", "t">>,
    <<"h", ":", "/", "/", "g", "/", "o", "/", "r", ".", "j", "s">>,
    <<"r">>,
    NoText }

----------------------------------------------------------------------------
(* analyzeWithGPT: the results it builds *)

\* lines 11-17
HeuristicResult ==
  Object([f \in Fields |->
    CASE f = "RootCauseExplanation" -> Str(<<"Yerel: OPENAI_API_KEY tanimli degil. Basit sezgisel analiz">>)
      [] f = "Patch" -> Str(NoText)
      [] f = "TestSuggestions" -> Str(<<"Hata veren fonksiyon icin ek test(ler).">>)
      [] OTHER -> Str(<<"Dusuk">>)])

\* lines 49-54
ParseFallback ==
  Object([f \in Fields |->
    CASE f = "RootCauseExplanation" -> Str(<<"Model yaniti JSON degil, manuel yedek aciklama.">>)
      [] f = "Patch" -> Str(NoText)
      [] f = "TestSuggestions" -> Str(<<"Model JSON donmedi; test onerileri uretilemedi.">>)
      [] OTHER -> Str(<<"Orta">>)])

\* lines 57-62
TransportFallback(err) ==
  Object([f \in Fields |->
    CASE f = "RootCauseExplanation" -> Str(<<"Model istegi hata verdi: ", err>>)
      [] f = "Patch" -> Str(NoText)
      [] f = "TestSuggestions" -> Str(<<"Yerel analiz devreye alinmali.">>)
      [] OTHER -> Str(<<"Bilinmiyor">>)])

\* lines 42-55: the value returned once the reply's content is known
ResultOfContent(content) ==
  LET r == JSONParse(ContentOrEmpty(content))
  IN IF r.ok THEN r.val ELSE ParseFallback

\* Variant: the test of line 10 inverted
NoCredentialInverted(apiKey) == apiKey # ""

\* line 10: !apiKey
NoCredential(apiKey) == apiKey = ""

----------------------------------------------------------------------------
(* run: the decisions it takes *)

\* line 111: analysis?.Patch && typeof analysis.Patch === 'string' && analysis.Patch.trim()
ShouldWritePatch(a) ==
  LET v == Get(a, "Patch")
  IN Truthy(v) /\ v.t = "string" /\ Trim(v.s) # NoText

\* Variant: line 111 as analysis.Patch.trim(), without ?. and the typeof test
PatchDecisionUnguarded(a) ==
  LET v == Get(a, "Patch")
  IN IF a.type = "null" THEN "throw"
     ELSE IF Truthy(v) /\ v.t # "string" THEN "throw"
     ELSE IF Truthy(v) /\ Trim(v.s) # NoText THEN "write" ELSE "skip"

\* line 111 as a whole: the ?. and the typeof test leave no value of analysis
\* on which it raises a TypeError
PatchDecision(a) == IF ShouldWritePatch(a) THEN "write" ELSE "skip"

\* Variant: line 116 without the concat
AddPathsOnlyAnalysis(path) == {"analysis.json"}

\* line 116: ['analysis.json'].concat(patchPath ? ['suggested_patch.diff'] : [])
AddPaths(path) ==
  {"analysis.json"} \cup (IF path # "" THEN {"suggested_patch.diff"} ELSE {})

\* line 127: process.env.GITHUB_TOKEN || process.env.GH_TOKEN
PublishToken(e) == IF e.GITHUB_TOKEN # "" THEN e.GITHUB_TOKEN ELSE e.GH_TOKEN

\* Variant: the pattern of line 135 without its $ anchor
RemoteMatchUnanchored(url) ==
  \E i \in 1..Len(url), j \in 1..Len(url), k \in 1..Len(url) :
    /\ url[i] \in {":", "/"}
    /\ i + 1 < j
    /\ \A x \in (i + 1)..(j - 1) : url[x] # "/"
    /\ url[j] = "/"
    /\ j < k
    /\ \A x \in (j + 1)..k : url[x] \notin {"/", "."}

\* line 135: remoteUrl.match(/[:/]([^/]+)\/([^/.]+)(?:\.git)?$/)
RemoteMatch(url) ==
  \E i \in 1..Len(url), j \in 1..Len(url), k \in 1..Len(url) :
    /\ url[i] \in {":", "/"}
    /\ i + 1 < j
    /\ \A x \in (i + 1)..(j - 1) : url[x] # "/"
    /\ url[j] = "/"
    /\ j < k
    /\ \A x \in (j + 1)..k : url[x] \notin {"/", "."}
    /\ \/ k = Len(url)
       \/ k + 4 = Len(url) /\ HasAt(url, k + 1, <<".", "g", "i", "t">>)

\* ToString of a field value, as join('\n') and RegExp.test apply it
ToText(v) ==
  CASE v.t \in {"absent", "null"} -> NoText
    [] v.t = "object" -> <<"[object Object]">>
    [] OTHER -> v.s

\* lines 73-75: /^(diff --git|--- |\+\+\+ )/m.test(text || '')
IsLikelyUnifiedDiff(v) ==
  LET text == IF Truthy(v) THEN ToText(v) ELSE NoText
  IN \E i \in 1..Len(text) :
       /\ i = 1 \/ text[i - 1] \in {"\n", "\r"}
       /\ \/ HasAt(text, i, <<"d", "i", "f", "f", " ", "-", "-", "g", "i", "t">>)
          \/ HasAt(text, i, <<"-", "-", "-", " ">>)
          \/ HasAt(text, i, <<"+", "+", "+", " ">>)

\* x || fallback, as a text
OrDefault(v, fallback) == IF Truthy(v) THEN ToText(v) ELSE <<fallback>>

\* lines 145-159: the four sections of the pull-request body
PrBody(a) ==
  [root |-> OrDefault(Get(a, "RootCauseExplanation"), "Belirlenemedi"),
   patch |-> IF IsLikelyUnifiedDiff(Get(a, "Patch"))
               THEN "Asagidaki diff dosyasina bakiniz: suggested_patch.diff"
               ELSE "Uretilemedi veya gecersiz.",
   tests |-> OrDefault(Get(a, "TestSuggestions"), "Belirtilmedi"),
   risk |-> OrDefault(Get(a, "RiskAssessment"), "Belirtilmedi")]

----------------------------------------------------------------------------
(* The state of one run *)

VARIABLES
  pc,           \* where run() stands
  exitStatus,   \* "running", "zero" or "nonzero"
  thrownBy,     \* the stage whose failure rejected run(), "" if none
  failed,       \* the stages that failed in this run
  events,       \* the stages executed, in order
  env,          \* process.env
  logFile,      \* latest_test_log.txt: "absent" or "present"
  autoFix,      \* the branch auto-fix/<short hash>: whether it exists, its patch file
  testLog, gitDiff,
  analysis,     \* the value analyzeWithGPT returned
  outcome,      \* how analyzeWithGPT came to its result
  timer,        \* the deadline timer: "unarmed", "armed", "cleared" or "fired"
  fetchCalls,   \* requests sent to the reasoning service
  analyzeArgs,  \* the { testLog, gitDiff } that line 95 passed to analyzeWithGPT
  branch,       \* the branch checked out: "start" or "auto-fix"
  analysisFile, patchFile,   \* analysis.json and suggested_patch.diff in the work tree
  patchPath,    \* "" for null
  staged,       \* the paths git add has staged
  commits,      \* the commits created
  pushes,       \* pushes attempted
  remoteUrl,
  prCalls,      \* pulls.create calls issued
  prBody

vars == <<pc, exitStatus, thrownBy, failed, events, env, logFile, autoFix, testLog,
          gitDiff, analysis, outcome, timer, fetchCalls, analyzeArgs, branch, analysisFile,
          patchFile, patchPath, staged, commits, pushes, remoteUrl, prCalls, prBody>>

envVars == <<env, logFile>>
inputVars == <<testLog, gitDiff>>
analysisVars == <<analysis, outcome, timer, fetchCalls, analyzeArgs>>
gitVars == <<branch, autoFix, staged, commits, pushes>>
fileVars == <<analysisFile, patchFile, patchPath>>
prVars == <<remoteUrl, prCalls, prBody>>

NoArgs == [called |-> FALSE, testLog |-> NoText, gitDiff |-> NoText]
NoFile == [exists |-> FALSE, text |-> NoText]
File(text) == [exists |-> TRUE, text |-> text]
Unset == Scalar("unset")
NoRecord == [exists |-> FALSE, testLog |-> NoText, gitDiff |-> NoText, analysis |-> Unset]
NoBody == [root |-> NoText, patch |-> "", tests |-> NoText, risk |-> NoText]

\* A patch file that an earlier run committed to the auto-fix branch
StalePatch == File(<<"o", "l", "d">>)

Init ==
  /\ pc = "identity_name"
  /\ exitStatus = "running"
  /\ thrownBy = ""
  /\ failed = {}
  /\ events = <<>>
  /\ env \in [OPENAI_API_KEY : {"", "sk"}, GITHUB_TOKEN : {"", "ght"}, GH_TOKEN : {"", "ght"}]
  /\ logFile \in {"absent", "present"}
  /\ autoFix \in {[exists |-> FALSE, patch |-> NoFile],
                  [exists |-> TRUE, patch |-> NoFile],
                  [exists |-> TRUE, patch |-> StalePatch]}
  /\ testLog = NoText
  /\ gitDiff = NoText
  /\ analysis = Unset
  /\ outcome = "none"
  /\ timer = "unarmed"
  /\ fetchCalls = 0
  /\ analyzeArgs = NoArgs
  /\ branch = "start"
  /\ analysisFile = NoRecord
  /\ patchFile = NoFile
  /\ patchPath = ""
  /\ staged = {}
  /\ commits = <<>>
  /\ pushes = 0
  /\ remoteUrl = NoText
  /\ prCalls = 0
  /\ prBody = NoBody

\* A stage ran to its end (ok or, its failure caught, not) and run() goes on.
Go(stage, ok, next) ==
  /\ pc' = next
  /\ events' = Append(events, stage)
  /\ failed' = IF ok THEN failed ELSE failed \cup {stage}
  /\ thrownBy' = thrownBy

\* A stage threw and nothing in run() caught it: run() rejects.
Throw(stage) ==
  /\ pc' = "rejected"
  /\ events' = Append(events, stage)
  /\ failed' = failed \cup {stage}
  /\ thrownBy' = stage

----------------------------------------------------------------------------
(* run, lines 77-95: identity, diff, log *)

\* line 69: the failure of addConfig('user.name') is swallowed
EnsureIdentityName ==
  /\ pc = "identity_name"
  /\ \E ok \in BOOLEAN : Go("identity", ok, "identity_email")
  /\ UNCHANGED <<exitStatus, envVars, inputVars, analysisVars, gitVars, fileVars, prVars>>

\* line 70: the failure of addConfig('user.email') is swallowed
EnsureIdentityEmail ==
  /\ pc = "identity_email"
  /\ \E ok \in BOOLEAN : Go("identity", ok, "diff")
  /\ UNCHANGED <<exitStatus, envVars, inputVars, analysisVars, gitVars, fileVars, prVars>>

\* Variant: execSync of line 84 outside its try
CaptureDiffFatal ==
  /\ pc = "diff"
  /\ \E ok \in BOOLEAN :
       IF ok THEN /\ gitDiff' = <<"diff">>
                  /\ Go("diff", TRUE, "log")
             ELSE /\ gitDiff' = gitDiff
                  /\ Throw("diff")
  /\ UNCHANGED <<exitStatus, envVars, testLog, analysisVars, gitVars, fileVars, prVars>>

\* lines 82-87: git diff origin/main, the empty text when it fails
CaptureDiff ==
  /\ pc = "diff"
  /\ \E ok \in BOOLEAN :
       /\ gitDiff' = IF ok THEN <<"diff">> ELSE NoText
       /\ Go("diff", ok, "log")
  /\ UNCHANGED <<exitStatus, envVars, testLog, analysisVars, gitVars, fileVars, prVars>>

\* lines 89-92: the log is read when the file exists; readFileSync is not guarded
ReadLog ==
  /\ pc = "log"
  /\ IF logFile = "absent"
       THEN /\ testLog' = NoText
            /\ Go("log", TRUE, "analyze")
       ELSE \E ok \in BOOLEAN :
              IF ok THEN /\ testLog' = <<"log">>
                         /\ Go("log", TRUE, "analyze")
                    ELSE /\ testLog' = testLog
                         /\ Throw("log")
  /\ UNCHANGED <<exitStatus, envVars, gitDiff, analysisVars, gitVars, fileVars, prVars>>

----------------------------------------------------------------------------
(* analyzeWithGPT, lines 8-66 *)

\* Variant: no finally block (lines 63-65), the timer is left as it is
ReturnKeepsTimer(result, how, t, ok) ==
  /\ analysis' = result
  /\ outcome' = how
  /\ timer' = timer
  /\ pc' = "revparse"
  /\ failed' = IF ok THEN failed ELSE failed \cup {"analyze"}
  /\ UNCHANGED <<events, thrownBy, fetchCalls, analyzeArgs>>

\* analyzeWithGPT returns `result` to line 95; `t` is the timer after finally.
Return(result, how, t, ok) ==
  /\ analysis' = result
  /\ outcome' = how
  /\ timer' = t
  /\ pc' = "revparse"
  /\ failed' = IF ok THEN failed ELSE failed \cup {"analyze"}
  /\ UNCHANGED <<events, thrownBy, fetchCalls, analyzeArgs>>

\* lines 9-18: no key, the heuristic result, no request and no timer
AnalyzeNoKey ==
  /\ pc = "analyze"
  /\ NoCredential(env.OPENAI_API_KEY)
  /\ analyzeArgs' = [called |-> TRUE, testLog |-> testLog, gitDiff |-> gitDiff]
  /\ analysis' = HeuristicResult
  /\ outcome' = "no_key"
  /\ Go("analyze", TRUE, "revparse")
  /\ UNCHANGED <<exitStatus, envVars, inputVars, timer, fetchCalls, gitVars, fileVars, prVars>>

\* lines 21-40: the timer is armed and the request sent
AnalyzeSend ==
  /\ pc = "analyze"
  /\ ~NoCredential(env.OPENAI_API_KEY)
  /\ analyzeArgs' = [called |-> TRUE, testLog |-> testLog, gitDiff |-> gitDiff]
  /\ timer' = "armed"
  /\ fetchCalls' = fetchCalls + 1
  /\ Go("analyze", TRUE, "fetch")
  /\ UNCHANGED <<exitStatus, envVars, inputVars, analysis, outcome, gitVars, fileVars, prVars>>

\* Variant: a failed request is sent again
FetchFailsRetries ==
  /\ pc = "fetch"
  /\ fetchCalls < 3
  /\ fetchCalls' = fetchCalls + 1
  /\ UNCHANGED <<pc, exitStatus, thrownBy, failed, events, envVars, inputVars, analysis,
                 outcome, timer, analyzeArgs, gitVars, fileVars, prVars>>

\* line 25 rejects (network error): lines 56-65
FetchFails ==
  /\ pc = "fetch"
  /\ \E err \in TransportErrors : Return(TransportFallback(err), "transport", "cleared", FALSE)
  /\ UNCHANGED <<exitStatus, envVars, inputVars, gitVars, fileVars, prVars>>

\* line 25 resolves: the response head has arrived, line 41 awaits the body
FetchResponds ==
  /\ pc = "fetch"
  /\ pc' = "body"
  /\ UNCHANGED <<exitStatus, thrownBy, failed, events, envVars, inputVars, analysisVars,
                 gitVars, fileVars, prVars>>

\* Variant: res.json() awaited outside the try of line 23
BodyFailsPropagates ==
  /\ pc = "body"
  /\ Throw("analyze")
  /\ UNCHANGED <<exitStatus, envVars, inputVars, analysisVars, gitVars, fileVars, prVars>>

\* line 41 rejects (the body is not JSON): caught at line 56 like a network error
BodyFails ==
  /\ pc = "body"
  /\ Return(TransportFallback(BodyError), "undecodable", "cleared", FALSE)
  /\ UNCHANGED <<exitStatus, envVars, inputVars, gitVars, fileVars, prVars>>

\* lines 41-55: the body is decoded and its content parsed
BodyDecoded ==
  /\ pc = "body"
  /\ \E c \in ReplyContents :
       LET ok == JSONParse(ContentOrEmpty(c)).ok
       IN Return(ResultOfContent(c), IF ok THEN "parsed" ELSE "not_json", "cleared", ok)
  /\ UNCHANGED <<exitStatus, envVars, inputVars, gitVars, fileVars, prVars>>

\* Variant: fetch called without the signal of line 39, so abort() reaches nothing
DeadlineIgnored ==
  /\ timer = "armed"
  /\ pc \in {"fetch", "body"}
  /\ timer' = "fired"
  /\ UNCHANGED <<pc, exitStatus, thrownBy, failed, events, envVars, inputVars, analysis,
                 outcome, fetchCalls, analyzeArgs, gitVars, fileVars, prVars>>

\* line 22: the deadline passes while line 25 or line 41 is pending; abort()
\* rejects the pending promise, which lines 56-65 turn into the fallback
DeadlineExpires ==
  /\ timer = "armed"
  /\ pc \in {"fetch", "body"}
  /\ Return(TransportFallback(AbortError), "timeout", "fired", FALSE)
  /\ UNCHANGED <<exitStatus, envVars, inputVars, gitVars, fileVars, prVars>>

----------------------------------------------------------------------------
(* run, lines 97-174: branch, artifacts, commit, push, pull request *)

\* line 98: git rev-parse --short HEAD is not guarded
ResolveHead ==
  /\ pc = "revparse"
  /\ \E ok \in BOOLEAN : IF ok THEN Go("revparse", TRUE, "branch_create") ELSE Throw("revparse")
  /\ UNCHANGED <<exitStatus, envVars, inputVars, analysisVars, gitVars, fileVars, prVars>>

\* lines 100-102: git checkout -b fails when the branch exists (or for another reason)
CheckoutLocalBranch ==
  /\ pc = "branch_create"
  /\ \E ok \in BOOLEAN :
       IF ok /\ ~autoFix.exists
         THEN /\ branch' = "auto-fix"
              /\ autoFix' = [exists |-> TRUE, patch |-> NoFile]
              /\ Go("branch_create", TRUE, "write_analysis")
         ELSE /\ UNCHANGED <<branch, autoFix>>
              /\ Go("branch_create", FALSE, "branch_switch")
  /\ UNCHANGED <<exitStatus, envVars, inputVars, analysisVars, staged, commits, pushes,
                 fileVars, prVars>>

\* line 103: git checkout of the existing branch brings its files into the work
\* tree; a failure is swallowed and the run stays on the branch it started from
Checkout ==
  /\ pc = "branch_switch"
  /\ \E ok \in BOOLEAN :
       IF ok /\ autoFix.exists
         THEN /\ branch' = "auto-fix"
              /\ patchFile' = autoFix.patch
              /\ Go("branch_switch", TRUE, "write_analysis")
         ELSE /\ UNCHANGED <<branch, patchFile>>
              /\ Go("branch_switch", FALSE, "write_analysis")
  /\ UNCHANGED <<exitStatus, envVars, inputVars, analysisVars, autoFix, staged, commits,
                 pushes, analysisFile, patchPath, prVars>>

\* lines 107-108: analysis.json; writeFileSync is not guarded
WriteAnalysis ==
  /\ pc = "write_analysis"
  /\ \E ok \in BOOLEAN :
       IF ok THEN /\ analysisFile' = [exists |-> TRUE, testLog |-> testLog,
                                      gitDiff |-> gitDiff, analysis |-> analysis]
                  /\ Go("write_analysis", TRUE, "write_patch")
             ELSE /\ analysisFile' = analysisFile
                  /\ Throw("write_analysis")
  /\ UNCHANGED <<exitStatus, envVars, inputVars, analysisVars, gitVars, patchFile,
                 patchPath, prVars>>

\* lines 110-114: suggested_patch.diff, only for a non-blank string Patch
WritePatch ==
  /\ pc = "write_patch"
  /\ IF PatchDecision(analysis) = "write"
       THEN /\ patchPath' = "suggested_patch.diff"
            /\ \E ok \in BOOLEAN :
                 IF ok THEN /\ patchFile' = File(Get(analysis, "Patch").s)
                            /\ Go("write_patch", TRUE, "add")
                       ELSE /\ patchFile' = patchFile
                            /\ Throw("write_patch")
       ELSE IF PatchDecision(analysis) = "throw"
         THEN /\ UNCHANGED <<patchPath, patchFile>>
              /\ Throw("patch_condition")
       ELSE /\ pc' = "add"
            /\ UNCHANGED <<patchPath, patchFile, events, failed, thrownBy>>
  /\ UNCHANGED <<exitStatus, envVars, inputVars, analysisVars, gitVars, analysisFile, prVars>>

\* line 116: git add is not guarded
GitAdd ==
  /\ pc = "add"
  /\ \E ok \in BOOLEAN :
       IF ok THEN /\ staged' = AddPaths(patchPath)
                  /\ Go("add", TRUE, "commit")
             ELSE /\ staged' = staged
                  /\ Throw("add")
  /\ UNCHANGED <<exitStatus, envVars, inputVars, analysisVars, branch, autoFix, commits,
                 pushes, fileVars, prVars>>

\* Variant: git commit wrapped in a try/catch that logs, like the push
GitCommitSwallowed ==
  /\ pc = "commit"
  /\ \E ok \in BOOLEAN :
       /\ commits' = IF ok THEN Append(commits, [branch |-> branch, files |-> staged])
                          ELSE commits
       /\ Go("commit", ok, "push")
  /\ UNCHANGED <<exitStatus, envVars, inputVars, analysisVars, branch, autoFix, staged,
                 pushes, fileVars, prVars>>

\* line 117: git commit is not guarded
GitCommit ==
  /\ pc = "commit"
  /\ \E ok \in BOOLEAN :
       IF ok THEN /\ commits' = Append(commits, [branch |-> branch, files |-> staged])
                  /\ Go("commit", TRUE, "push")
             ELSE /\ commits' = commits
                  /\ Throw("commit")
  /\ UNCHANGED <<exitStatus, envVars, inputVars, analysisVars, branch, autoFix, staged,
                 pushes, fileVars, prVars>>

\* Variant: a failed push is tried once more
GitPushRetries ==
  /\ pc = "push"
  /\ pushes' = pushes + 1
  /\ \E ok \in BOOLEAN :
       Go("push", ok, IF ok \/ pushes >= 1 THEN "token" ELSE "push")
  /\ UNCHANGED <<exitStatus, envVars, inputVars, analysisVars, branch, autoFix, staged,
                 commits, fileVars, prVars>>

\* Variant: git push without the try/catch of lines 120-124
GitPushFatal ==
  /\ pc = "push"
  /\ pushes' = pushes + 1
  /\ \E ok \in BOOLEAN : IF ok THEN Go("push", TRUE, "token") ELSE Throw("push")
  /\ UNCHANGED <<exitStatus, envVars, inputVars, analysisVars, branch, autoFix, staged,
                 commits, fileVars, prVars>>

\* lines 120-124: the failure of git push is logged
GitPush ==
  /\ pc = "push"
  /\ pushes' = pushes + 1
  /\ \E ok \in BOOLEAN : Go("push", ok, "token")
  /\ UNCHANGED <<exitStatus, envVars, inputVars, analysisVars, branch, autoFix, staged,
                 commits, fileVars, prVars>>

\* lines 127-132: without a token run() returns
CheckToken ==
  /\ pc = "token"
  /\ pc' = IF PublishToken(env) = "" THEN "returned" ELSE "remote"
  /\ UNCHANGED <<exitStatus, thrownBy, failed, events, envVars, inputVars, analysisVars,
                 gitVars, fileVars, prVars>>

\* lines 133-139: the remote URL, '' when the lookup fails; no match, run() returns
GetRemoteUrl ==
  /\ pc = "remote"
  /\ \E ok \in BOOLEAN, url \in RemoteUrls :
       /\ remoteUrl' = IF ok THEN Trim(url) ELSE NoText
       /\ Go("remote", ok, IF RemoteMatch(remoteUrl') THEN "pr" ELSE "returned")
  /\ UNCHANGED <<exitStatus, envVars, inputVars, analysisVars, gitVars, fileVars,
                 prCalls, prBody>>

\* Variant: pulls.create outside the try of lines 161-173
CreatePullRequestFatal ==
  /\ pc = "pr"
  /\ prBody' = PrBody(analysis)
  /\ prCalls' = prCalls + 1
  /\ \E ok \in BOOLEAN : IF ok THEN Go("pr", TRUE, "returned") ELSE Throw("pr")
  /\ UNCHANGED <<exitStatus, envVars, inputVars, analysisVars, gitVars, fileVars, remoteUrl>>

\* lines 142-173: the body is built and pulls.create called; its failure is logged
CreatePullRequest ==
  /\ pc = "pr"
  /\ prBody' = PrBody(analysis)
  /\ prCalls' = prCalls + 1
  /\ \E ok \in BOOLEAN : Go("pr", ok, "returned")
  /\ UNCHANGED <<exitStatus, envVars, inputVars, analysisVars, gitVars, fileVars, remoteUrl>>

\* run() resolved and nothing is pending: the process ends with status 0
ProcessEnds ==
  /\ pc = "returned"
  /\ timer # "armed"
  /\ pc' = "exit"
  /\ exitStatus' = "zero"
  /\ UNCHANGED <<thrownBy, failed, events, envVars, inputVars, analysisVars, gitVars,
                 fileVars, prVars>>

\* lines 176-179: run() rejected: process.exit(1)
RunCatch ==
  /\ pc = "rejected"
  /\ pc' = "exit"
  /\ exitStatus' = "nonzero"
  /\ UNCHANGED <<thrownBy, failed, events, envVars, inputVars, analysisVars, gitVars,
                 fileVars, prVars>>

Remote == FetchFails \/ FetchResponds \/ BodyFails \/ BodyDecoded

Local ==
  \/ EnsureIdentityName \/ EnsureIdentityEmail \/ CaptureDiff \/ ReadLog
  \/ AnalyzeNoKey \/ AnalyzeSend \/ DeadlineExpires
  \/ ResolveHead \/ CheckoutLocalBranch \/ Checkout \/ WriteAnalysis \/ WritePatch
  \/ GitAdd \/ GitCommit \/ GitPush \/ CheckToken \/ GetRemoteUrl \/ CreatePullRequest
  \/ ProcessEnds \/ RunCatch

Next == Local \/ Remote

Spec == Init /\ [][Next]_vars

\* The timer fires and every local primitive returns; the reasoning service
\* owes no reply.
FairSpec == Spec /\ WF_vars(Local)

----------------------------------------------------------------------------
(* Properties *)

Exited == pc = "exit"

\* The stage has been executed in this run
Ran(stage) == \E i \in 1..Len(events) : events[i] = stage

\* analyzeWithGPT was called and has returned
Analyzed == outcome # "none"

\* The artifact-writing stage (lines 107-114) has run to its end
ArtifactsWritten ==
  \/ pc \in {"add", "commit", "push", "token", "remote", "pr", "returned"}
  \/ pc \in {"rejected", "exit"} /\ thrownBy \in {"", "add", "commit"}

\* C1: the process exits with non-zero status if and only if staging or commit
\* failed; the failure of any other stage ends the run with zero status.
C1_OnlyCheckpointAborts ==
  Exited => (exitStatus = "nonzero" <=> failed \cap {"add", "commit"} # {})

\* C2: once git add or git commit has failed, the run is a failure (it can only
\* exit with non-zero status) and no push and no pull-request call is made.
C2_NothingAfterFailedCheckpoint ==
  failed \cap {"add", "commit"} # {} =>
    /\ pc \in {"rejected", "exit"}
    /\ exitStatus # "zero"
    /\ Exited => exitStatus = "nonzero"
    /\ pushes = 0
    /\ prCalls = 0
    /\ events[Len(events)] \in {"add", "commit"}

C2_Witness == Exited /\ "commit" \in failed /\ exitStatus = "nonzero"

\* C3: analyzeWithGPT never rejects: whatever the remote call does (no key,
\* transport error, deadline, undecodable body, content that is not JSON,
\* content that parses), run() is not rejected by it and it has returned a value.
C3_AnalyzeNeverThrows ==
  /\ thrownBy # "analyze"
  /\ "analyze" \in failed => Analyzed
  /\ Analyzed => analysis # Unset
  /\ Ran("analyze") /\ pc \notin {"fetch", "body"} => Analyzed

C3_Witness == outcome = "undecodable" /\ pc = "revparse" /\ analysis # Unset

\* C4: the analysis consumed by the artifact writer and the pull-request body
\* has all four fields present, in every path.
C4_AllFieldsPresent ==
  Analyzed => \A f \in Fields : Get(analysis, f).t # "absent"

\* C5: with no reasoning-service key, no request is sent (and no timer armed)
\* and the analysis is the fixed heuristic result (empty Patch, risk "Dusuk"),
\* whatever testLog and gitDiff are.
C5_NoKeyHeuristic ==
  env.OPENAI_API_KEY = "" =>
    /\ fetchCalls = 0
    /\ timer = "unarmed"
    /\ pc \notin {"fetch", "body"}
    /\ Ran("analyze") =>
         /\ outcome = "no_key"
         /\ Get(analysis, "RootCauseExplanation")
              = Str(<<"Yerel: OPENAI_API_KEY tanimli degil. Basit sezgisel analiz">>)
         /\ Get(analysis, "Patch") = Str(NoText)
         /\ Get(analysis, "RiskAssessment") = Str(<<"Dusuk">>)

C5_Witness ==
  /\ env.OPENAI_API_KEY = ""
  /\ pc = "revparse"
  /\ testLog = <<"log">>
  /\ gitDiff = <<"diff">>
  /\ Get(analysis, "RiskAssessment") = Str(<<"Dusuk">>)

\* C6: when the deadline passes with the remote call pending, the request is
\* cancelled and analyzeWithGPT returns the transport fallback (the error text
\* embedded, risk "Bilinmiyor"); the run goes on through the later stages, and
\* every run ends even if the reasoning service never replies.
C6_DeadlineFallbackAndTermination ==
  /\ [](outcome = "timeout" =>
          /\ Get(analysis, "RootCauseExplanation")
               = Str(<<"Model istegi hata verdi: ", "AbortError: This operation was aborted">>)
          /\ Get(analysis, "Patch") = Str(NoText)
          /\ Get(analysis, "RiskAssessment") = Str(<<"Bilinmiyor">>)
          /\ timer = "fired"
          /\ pc \notin {"fetch", "body"}
          /\ (Exited /\ exitStatus = "zero" =>
                Ran("branch_create") /\ Ran("write_analysis") /\ Ran("commit") /\ Ran("push")))
  /\ [](pc \in {"fetch", "body"} => <>(pc = "revparse"))
  /\ <>Exited

C6_Witness == outcome = "timeout" /\ Exited /\ exitStatus = "zero" /\ prCalls = 1

\* C7: after the artifact-writing stage the patch file holds exactly the Patch
\* text (and is staged by git add) when Patch is non-blank, and no patch file
\* exists in the work tree when Patch is empty or blank.
C7_PatchFileIffPatch ==
  ArtifactsWritten =>
    LET v == Get(analysis, "Patch")
    IN IF v.t = "string" /\ Trim(v.s) # NoText
         THEN /\ patchFile = File(v.s)
              /\ Ran("add") /\ "add" \notin failed => "suggested_patch.diff" \in staged
         ELSE ~patchFile.exists

\* This run wrote suggested_patch.diff
PatchWritten == Ran("write_patch") /\ "write_patch" \notin failed

ExpectedPaths == IF PatchWritten THEN {"analysis.json", "suggested_patch.diff"}
                                 ELSE {"analysis.json"}

\* C8 as stated: every run that reaches the checkpoint (git add) creates a
\* commit, of exactly the analysis record and, if written, the patch file.
C8_CommitInEveryRunAtCheckpoint ==
  Exited /\ Ran("add") => Len(commits) = 1 /\ commits[1].files = ExpectedPaths

\* C8 amended: a run creates a commit exactly when git add and git commit both
\* succeed; the paths staged for it are exactly the analysis record when no
\* patch file was written in this run, and the record and the patch file when
\* one was.
C8_CommitWhenCheckpointPasses ==
  /\ Len(commits) <= 1
  /\ Len(commits) = 1 <=> Ran("add") /\ Ran("commit") /\ failed \cap {"add", "commit"} = {}
  /\ Ran("add") /\ "add" \notin failed => staged = ExpectedPaths
  /\ Len(commits) = 1 => commits[1].files = ExpectedPaths

C8_Witness ==
  /\ Len(commits) = 1
  /\ commits[1].files = {"analysis.json", "suggested_patch.diff"}
  /\ patchFile.exists

\* Remote URLs (trimmed) that are not of the owner/repository form
UnparseableUrls ==
  { NoText, <<"r">>, <<"h", ":", "/", "/", "g", "/", "o", "/", "r", ".", "j", "s">> }

\* Remote URLs (trimmed) of the owner/repository form
OwnerRepoUrls ==
  { <<"h", ":", "/", "/", "g", "/", "o", "/", "r", ".", "g", "i", "t">>,
    <<"g", "@", "g", ":", "o", "/", "r">>,
    <<"/", "s", "r", "v", "/", "r", ".", "g", "i", "t">> }

NoToken == env.GITHUB_TOKEN = "" /\ env.GH_TOKEN = ""

\* C9: without a publishing token, or with a remote URL that cannot be resolved
\* or is not of the owner/repository form, no pull-request call is made, and
\* the run, its commit made, exits with zero status.
C9_NoPullRequestWithoutTokenOrUrl ==
  NoToken \/ (Ran("remote") /\ remoteUrl \in UnparseableUrls) =>
    /\ prCalls = 0
    /\ pc # "pr"
    /\ Exited /\ Len(commits) = 1 => exitStatus = "zero"

C9_Witness == NoToken /\ Exited /\ Len(commits) = 1 /\ exitStatus = "zero" /\ prCalls = 0

\* C10: a failed push does not fail the run nor end it early: the pull-request
\* stage is still evaluated by the token and URL rules and the exit status is zero.
C10_PushFailureNonFatal ==
  "push" \in failed =>
    /\ thrownBy = ""
    /\ pc # "rejected"
    /\ Exited =>
         /\ exitStatus = "zero"
         /\ ~NoToken => Ran("remote")
         /\ prCalls = 1 <=> ~NoToken /\ remoteUrl \in OwnerRepoUrls

C10_Witness == "push" \in failed /\ Exited /\ exitStatus = "zero" /\ prCalls = 1

\* C11: a failed pull-request call is caught in its stage: the run is not
\* rejected, it exits with zero status and the commit it made stays as it was.
C11_PullRequestFailureCaught ==
  "pr" \in failed =>
    /\ thrownBy = ""
    /\ pc \in {"returned", "exit"}
    /\ Exited => exitStatus = "zero"
    /\ Len(commits) = 1
    /\ commits[1].files = staged

C11_Witness == "pr" \in failed /\ Exited /\ exitStatus = "zero" /\ Len(commits) = 1

\* The values a parseable content gives
ParsedValues ==
  { JSONParse(ContentOrEmpty(c)).val : c \in { x \in ReplyContents : JSONParse(ContentOrEmpty(x)).ok } }

\* C12: a response whose body is not parseable gives the parse fallback (risk
\* "Orta"); the risk "Bilinmiyor" fallback is returned only for a transport
\* error or a cancellation; a parsed response is returned unchanged.
C12_Classification ==
  Analyzed =>
    /\ outcome \in {"undecodable", "not_json"} => Get(analysis, "RiskAssessment") = Str(<<"Orta">>)
    /\ Get(analysis, "RiskAssessment") = Str(<<"Bilinmiyor">>) => outcome \in {"transport", "timeout"}
    /\ outcome = "parsed" => analysis \in ParsedValues

\* How often the stage has been executed
Count(stage) == Cardinality({ i \in 1..Len(events) : events[i] = stage })

\* C13: one call of analyzeWithGPT sends at most one request and run() calls
\* it once: after a transport error, a timeout or an unparseable response no
\* second request is sent.
C13_SingleRequest ==
  /\ fetchCalls <= 1
  /\ Count("analyze") <= 1
  /\ analyzeArgs.called <=> Count("analyze") = 1
  /\ Ran("revparse") => Count("analyze") = 1
  /\ outcome \in {"transport", "timeout", "undecodable", "not_json", "parsed"} => fetchCalls = 1
  /\ fetchCalls = 1 => env.OPENAI_API_KEY # ""

C13_Witness == outcome = "transport" /\ Exited /\ fetchCalls = 1 /\ Len(commits) = 1

\* C14: when the branch exists already, creating it fails and the run switches
\* to it and goes on to the artifact stage.
C14_ExistingBranchReused ==
  autoFix.exists /\ Ran("branch_switch") =>
    /\ branch = "auto-fix"
    /\ thrownBy \notin {"branch_create", "branch_switch"}

\* The place of a stage in the order of the source
Rank(stage) ==
  CASE stage = "identity" -> 0
    [] stage = "diff" -> 1
    [] stage = "log" -> 2
    [] stage = "analyze" -> 3
    [] stage = "revparse" -> 4
    [] stage = "branch_create" -> 5
    [] stage = "branch_switch" -> 6
    [] stage = "write_analysis" -> 7
    [] stage = "write_patch" -> 8
    [] stage = "add" -> 9
    [] stage = "commit" -> 10
    [] stage = "push" -> 11
    [] stage = "remote" -> 12
    [] stage = "pr" -> 13
    [] OTHER -> 14

\* C15: the stages run in the order analysis, branch, artifacts, add/commit,
\* push, pull request, none of them twice: artifacts are written only after
\* analyzeWithGPT returned, the push is attempted only after a successful
\* commit, the pull-request call is made only after a push was attempted.
C15_ForwardOrder ==
  /\ \A i \in 1..(Len(events) - 1) :
       \/ Rank(events[i]) < Rank(events[i + 1])
       \/ events[i] = "identity" /\ events[i + 1] = "identity" /\ i = 1
  /\ Ran("branch_create") => Ran("analyze") /\ Analyzed
  /\ Ran("write_analysis") => Ran("branch_create") /\ Analyzed
  /\ analysisFile.exists => Analyzed /\ analysisFile.analysis = analysis
  /\ patchFile.exists /\ patchFile # StalePatch => Analyzed /\ Ran("write_analysis")
  /\ Ran("add") => Ran("write_analysis")
  /\ Ran("push") => Ran("commit") /\ "commit" \notin failed /\ Len(commits) = 1
  /\ pushes > 0 => Len(commits) = 1
  /\ Ran("pr") => Ran("push")
  /\ prCalls > 0 => pushes = 1
  /\ prCalls <= 1 /\ pushes <= 1

C15_Witness == Exited /\ prCalls = 1 /\ Ran("write_patch") /\ Ran("branch_switch")

\* C16: a failure of either identity write or of the diff never rejects the
\* run; after a failed diff the gitDiff handed to analyzeWithGPT and recorded
\* in analysis.json is the empty text, and the analysis is still called
\* (unless the log read that follows the diff aborts the run, see C1).
C16_IdentityAndDiffBestEffort ==
  /\ thrownBy \notin {"identity", "diff"}
  /\ "diff" \in failed =>
       /\ pc # "diff"
       /\ gitDiff = NoText
       /\ analyzeArgs.called => analyzeArgs.gitDiff = NoText
       /\ analysisFile.exists => analysisFile.gitDiff = NoText
  /\ failed \cap {"identity", "diff"} # {}
       /\ pc \notin {"identity_email", "diff", "log", "analyze"} /\ thrownBy # "log"
       => analyzeArgs.called

C16_Witness ==
  /\ {"identity", "diff"} \subseteq failed
  /\ Analyzed
  /\ analysisFile.exists
  /\ analysisFile.gitDiff = NoText
  /\ Len(commits) = 1

\* C17: every commit of a run is made with auto-fix/<short hash> checked out,
\* never on the branch the run started from.
C17_CommitOnAutoFixBranch ==
  \A i \in 1..Len(commits) : commits[i].branch = "auto-fix"

\* C18: whatever value a parseable response has (null, a scalar, an array, an
\* object without the fields, a Patch that is no string), handling the value
\* never rejects the run: with rev-parse and the file writes succeeding the
\* run reaches git add; and the patch file is written only for a Patch that is
\* a string and not blank.
C18_AnyParsedValueHandled ==
  outcome = "parsed" =>
    /\ thrownBy \notin {"analyze", "patch_condition"}
    /\ failed \cap {"revparse", "write_analysis", "write_patch"} = {}
         => (pc \in {"rejected", "exit"} => Ran("add"))
    /\ Ran("write_patch") \/ patchPath # "" =>
         Get(analysis, "Patch").t = "string" /\ Trim(Get(analysis, "Patch").s) # NoText

C18_Witness ==
  /\ outcome = "parsed"
  /\ Get(analysis, "Patch").t = "array"
  /\ patchPath = ""
  /\ Len(commits) = 1

\* C19: the pull-request body names suggested_patch.diff only when this run
\* wrote and staged that file; when no patch file was written the body says
\* that no patch could be produced.
C19_BodyNamesWrittenPatch ==
  prCalls = 1 =>
    /\ prBody.patch = "Asagidaki diff dosyasina bakiniz: suggested_patch.diff"
         => PatchWritten /\ "suggested_patch.diff" \in staged
    /\ ~PatchWritten => prBody.patch = "Uretilemedi veya gecersiz."

\* C20: on every path by which analyzeWithGPT returns after arming the timer
\* the timer is disarmed, it cannot fire once analyzeWithGPT has returned, and
\* without a key it is never armed.
C20_TimerDisarmedOnReturn ==
  /\ [](/\ Analyzed => timer # "armed"
        /\ timer = "armed" => pc \in {"fetch", "body"}
        /\ outcome \in {"parsed", "not_json", "undecodable", "transport"} => timer = "cleared"
        /\ env.OPENAI_API_KEY = "" => timer = "unarmed")
  /\ [][Analyzed => timer' = timer]_vars

C20_Witness == outcome = "not_json" /\ timer = "cleared" /\ Exited

====
